---- MODULE Spec2Model ----
(***************************************************************************)
(* Model of the plant-disease API: the POST /predict/ handler of           *)
(* src/main.py and the two helpers of src/src/functions.py.                *)
(*                                                                         *)
(* A text is a sequence of characters.  A run of characters that no        *)
(* operation of the program takes apart (an object key, a fixed message)   *)
(* is written as one element; everything the fence slicing, strip() and    *)
(* replace() can touch is one character per element.                       *)
(***************************************************************************)
EXTENDS Integers, Sequences, FiniteSets, TLC

VARIABLES req, MODEL_GEMINI

vars == <<req, MODEL_GEMINI>>

(* ---------------- bounds ---------------- *)

\* number of POST /predict/ requests in flight
NumRequests == 2

\* longest sugestoes_tratamento list in a model reply
MaxItems == 1

Requests == 1..NumRequests

(* ---------------- characters and str methods ---------------- *)

\* the characters the program tests for, by name
BT == "BACKTICK"
DQ == "DQUOTE"
SQ == "SQUOTE"
BS == "BACKSLASH"
NL == "NEWLINE"
SP == "SPACE"

Whitespace == {SP, NL}

FenceJson == <<BT, BT, BT, "j", "s", "o", "n">>
Fence == <<BT, BT, BT>>

\* str.startswith
startswith(s, p) == Len(s) >= Len(p) /\ SubSeq(s, 1, Len(p)) = p

\* s[a:-b] for a >= 0, b > 0
Slice(s, a, b) == IF a + 1 > Len(s) - b THEN <<>> ELSE SubSeq(s, a + 1, Len(s) - b)

RECURSIVE lstrip(_)
lstrip(s) == IF s # <<>> /\ Head(s) \in Whitespace THEN lstrip(Tail(s)) ELSE s

RECURSIVE rstrip(_)
rstrip(s) ==
    IF s # <<>> /\ s[Len(s)] \in Whitespace THEN rstrip(SubSeq(s, 1, Len(s) - 1)) ELSE s

\* str.strip
strip(s) == rstrip(lstrip(s))

\* str.replace(old, new) for one-character old and new
RECURSIVE replace(_, _, _)
replace(s, old, new) ==
    IF s = <<>> THEN <<>>
    ELSE <<IF Head(s) = old THEN new ELSE Head(s)>> \o replace(Tail(s), old, new)

\* sep.join(ss)
RECURSIVE Join(_, _)
Join(sep, ss) ==
    IF ss = <<>> THEN <<>>
    ELSE IF Len(ss) = 1 THEN ss[1]
    ELSE ss[1] \o sep \o Join(sep, Tail(ss))

(* ---------------- Python values and JSON ---------------- *)

\* A scalar or list value is a record [t, b, s, items]; a dict is a function
\* from its keys to such values.
Bool(x) == [t |-> "bool", b |-> x, s |-> <<>>, items |-> <<>>]
Str(cs) == [t |-> "str", b |-> FALSE, s |-> cs, items |-> <<>>]
Num(ds) == [t |-> "int", b |-> FALSE, s |-> ds, items |-> <<>>]
List(xs) == [t |-> "list", b |-> FALSE, s |-> <<>>, items |-> xs]
None == [t |-> "none", b |-> FALSE, s |-> <<>>, items |-> <<>>]

IsDict(v) == "t" \notin DOMAIN v

\* the order in which a dict's keys are written
KeyOrder == <<"planta_saudavel", "nome_doenca_praga", "descricao",
              "sugestoes_tratamento", "confianca">>

\* a JSON string literal: the quotes, with " and \ escaped inside
RECURSIVE Escape(_)
Escape(cs) ==
    IF cs = <<>> THEN <<>>
    ELSE (IF Head(cs) \in {DQ, BS} THEN <<BS, Head(cs)>> ELSE <<Head(cs)>>)
         \o Escape(Tail(cs))

DumpsStr(cs) == <<DQ>> \o Escape(cs) \o <<DQ>>

DumpsScalar(v) ==
    CASE v.t = "bool" -> (IF v.b THEN <<"t", "r", "u", "e">> ELSE <<"f", "a", "l", "s", "e">>)
      [] v.t = "str" -> DumpsStr(v.s)
      [] v.t = "int" -> v.s
      [] OTHER -> <<"n", "u", "l", "l">>

DumpsValue(v) ==
    IF v.t = "list"
    THEN <<"[">> \o Join(<<",", SP>>, [i \in 1..Len(v.items) |-> DumpsScalar(v.items[i])])
         \o <<"]">>
    ELSE DumpsScalar(v)

PresentKeys(d) == SelectSeq(KeyOrder, LAMBDA k : k \in DOMAIN d)

\* json.dumps with its default separators ", " and ": "
dumps(v) ==
    IF IsDict(v)
    THEN LET ks == PresentKeys(v)
         IN <<"{">>
            \o Join(<<",", SP>>,
                    [i \in 1..Len(ks) |-> <<DQ, ks[i], DQ, ":", SP>> \o DumpsValue(v[ks[i]])])
            \o <<"}">>
    ELSE DumpsValue(v)

(* ---------------- what the external model can reply ---------------- *)

ItemLists == {[i \in 1..n |-> Str(<<"x">>)] : n \in 0..MaxItems}

Healthy ==
    [planta_saudavel |-> Bool(TRUE), nome_doenca_praga |-> Str(<<"Nenhuma">>),
     descricao |-> Str(<<"h">>), sugestoes_tratamento |-> List(<<>>)]

Diseased(items) ==
    [planta_saudavel |-> Bool(FALSE), nome_doenca_praga |-> Str(<<"Ferrugem">>),
     descricao |-> Str(<<"d">>), sugestoes_tratamento |-> List(items)]

\* the four fields well typed, and one more key
WithExtraKey ==
    [planta_saudavel |-> Bool(TRUE), nome_doenca_praga |-> Str(<<"Nenhuma">>),
     descricao |-> Str(<<"h">>), sugestoes_tratamento |-> List(<<>>),
     confianca |-> Num(<<"9">>)]

\* planta_saudavel is the string "true"
QuotedBool ==
    [planta_saudavel |-> Str(<<"t", "r", "u", "e">>), nome_doenca_praga |-> Str(<<"Nenhuma">>),
     descricao |-> Str(<<"h">>), sugestoes_tratamento |-> List(<<>>)]

\* sugestoes_tratamento is a single string
SingleString ==
    [planta_saudavel |-> Bool(FALSE), nome_doenca_praga |-> Str(<<"Ferrugem">>),
     descricao |-> Str(<<"d">>), sugestoes_tratamento |-> Str(<<"x">>)]

\* descricao is missing
MissingField ==
    [planta_saudavel |-> Bool(FALSE), nome_doenca_praga |-> Str(<<"Ferrugem">>),
     sugestoes_tratamento |-> List(<<>>)]

\* nome_doenca_praga is null
NullField ==
    [planta_saudavel |-> Bool(FALSE), nome_doenca_praga |-> None,
     descricao |-> Str(<<"d">>), sugestoes_tratamento |-> List(<<>>)]

Digits == <<"1", "2", "3", "4">>

WellTyped == {Healthy} \cup {Diseased(items) : items \in ItemLists}

ReplyValues ==
    WellTyped \cup {WithExtraKey, QuotedBool, SingleString, MissingField, NullField,
                    List(<<Str(<<"x">>)>>), Num(Digits)}

\* how the model may wrap the document d
Wrappers == {"bare", "json_fence", "bare_fence", "padded", "open_only",
             "fence_then_newline"}

Wrap(w, d) ==
    CASE w = "bare" -> d
      [] w = "json_fence" -> FenceJson \o <<NL>> \o d \o <<NL>> \o Fence
      [] w = "bare_fence" -> Fence \o <<NL>> \o d \o <<NL>> \o Fence
      [] w = "padded" -> <<SP, NL>> \o d \o <<NL>>
      [] w = "open_only" -> FenceJson \o d
      [] OTHER -> FenceJson \o <<NL>> \o d \o <<NL>> \o Fence \o <<NL>>

Prose == <<"D", "e", "s", "c", "u", "l", "p", "e">>

Texts == {Wrap(w, dumps(v)) : w \in Wrappers, v \in ReplyValues} \cup {Prose, <<>>}

\* prompt_feedback.block_reason values
BlockReasons == {"SAFETY", "OTHER"}

\* str(e) of an exception raised by the call
ErrorMessages == {<<"timeout">>, <<"quota", SP, DQ, "rpm", DQ, SP, "exceeded">>}

\* what model.generate_content does: reply with text, reply with a block
\* reason, or raise
Outcome(kind, text, reason, msg) ==
    [kind |-> kind, text |-> text, block_reason |-> reason, msg |-> msg]

Outcomes ==
    {Outcome("text", t, "", <<>>) : t \in Texts}
    \cup {Outcome("blocked", <<>>, b, <<>>) : b \in BlockReasons}
    \cup {Outcome("raise", <<>>, "", m) : m \in ErrorMessages}

(* ---------------- src/src/functions.py ---------------- *)

error_data_blocked(block_reason) ==
    [planta_saudavel |-> Bool(FALSE),
     nome_doenca_praga |-> Str(<<"Bloqueado pela IA">>),
     descricao |-> Str(<<"Conteudo bloqueado pelo Gemini. Razao: ", block_reason>>),
     sugestoes_tratamento |-> Str(<<"Tente uma imagem ou prompt diferente.">>)]

error_message_content(msg) == replace(msg, DQ, SQ)

error_data_exception(msg) ==
    [planta_saudavel |-> Bool(FALSE),
     nome_doenca_praga |-> Str(<<"Erro na IA">>),
     descricao |-> Str(<<"Ocorreu um erro critico ao comunicar ou processar a resposta da IA: ">>
                       \o error_message_content(msg)),
     sugestoes_tratamento |->
         Str(<<"Por favor, tente novamente mais tarde ou contate o suporte.">>)]

\* the text the Diagnosis Client returns for what the model did
get_gemini_plant_disease_response(outcome) ==
    CASE outcome.kind = "blocked" -> dumps(error_data_blocked(outcome.block_reason))
      [] outcome.kind = "raise" -> dumps(error_data_exception(outcome.msg))
      [] OTHER -> outcome.text

\* PIL images: "rgb" and "rgba" load and save, except that JPEG has no alpha
\* channel; "not_image" is not recognised by Image.open
Images == {"rgb", "rgba", "not_image"}

format_type(mime_type) ==
    CASE mime_type = "image/png" -> "PNG"
      [] mime_type = "image/webp" -> "WEBP"
      [] OTHER -> "JPEG"

\* pil_image.save(img_byte_arr, format=...) raises
SaveFails(pil_image, format) == pil_image = "rgba" /\ format = "JPEG"

image_pil_to_parts(pil_image, mime_type) ==
    IF SaveFails(pil_image, format_type(mime_type))
    THEN [ok |-> FALSE, exc |-> "ValueError", mime_type |-> "", data |-> ""]
    ELSE [ok |-> TRUE, exc |-> "", mime_type |-> mime_type,
          data |-> format_type(mime_type)]

(* ---------------- src/main.py ---------------- *)

\* every value json.loads can be handed here: the replies, the two fallback
\* payloads, and the numbers a slice can cut out of a longer number
JsonUniverse ==
    ReplyValues
    \cup {error_data_blocked(b) : b \in BlockReasons}
    \cup {error_data_exception(m) : m \in ErrorMessages}
    \cup {Num(SubSeq(Digits, 1, n)) : n \in 1..Len(Digits)}

\* json.loads: the value whose JSON text s is, or JSONDecodeError
loads(s) ==
    IF \E v \in JsonUniverse : dumps(v) = s
    THEN [ok |-> TRUE, value |-> CHOOSE v \in JsonUniverse : dumps(v) = s]
    ELSE [ok |-> FALSE, value |-> None]

\* main.py 96-101: the text handed to json.loads
json_str(gemini_response_text) ==
    IF startswith(gemini_response_text, FenceJson)
    THEN strip(Slice(gemini_response_text, Len(FenceJson), Len(Fence)))
    ELSE IF startswith(gemini_response_text, Fence)
    THEN strip(Slice(gemini_response_text, Len(Fence), Len(Fence)))
    ELSE strip(gemini_response_text)

Fields == {"planta_saudavel", "nome_doenca_praga", "descricao", "sugestoes_tratamento"}

\* the strings pydantic converts to a bool
TrueStrings == {<<"t", "r", "u", "e">>}
FalseStrings == {<<"f", "a", "l", "s", "e">>}

\* field validators of DiseaseInfo: the converted value, or None when the
\* value is rejected
AsBool(v) ==
    CASE v.t = "bool" -> v
      [] v.t = "str" /\ v.s \in TrueStrings -> Bool(TRUE)
      [] v.t = "str" /\ v.s \in FalseStrings -> Bool(FALSE)
      [] v.t = "int" /\ v.s = <<"1">> -> Bool(TRUE)
      [] v.t = "int" /\ v.s = <<"0">> -> Bool(FALSE)
      [] OTHER -> None

AsStr(v) == IF v.t = "str" THEN v ELSE None

\* AsListOfStr, but a single string is wrapped into a one-element list
AsListOfStr_wrapping(v) ==
    IF v.t = "str" THEN List(<<v>>)
    ELSE IF v.t = "list" /\ \A i \in 1..Len(v.items) : v.items[i].t = "str" THEN v
    ELSE None

AsListOfStr(v) ==
    IF v.t = "list" /\ \A i \in 1..Len(v.items) : v.items[i].t = "str" THEN v ELSE None

\* response_model=DiseaseInfo applied to the value the handler returns: the
\* response body, or a ResponseValidationError
DiseaseInfo(v) ==
    IF IsDict(v) /\ Fields \subseteq DOMAIN v
    THEN LET body == [planta_saudavel |-> AsBool(v.planta_saudavel),
                      nome_doenca_praga |-> AsStr(v.nome_doenca_praga),
                      descricao |-> AsStr(v.descricao),
                      sugestoes_tratamento |-> AsListOfStr(v.sugestoes_tratamento)]
         IN IF \A f \in Fields : body[f] # None
            THEN [ok |-> TRUE, body |-> body]
            ELSE [ok |-> FALSE, body |-> None]
    ELSE [ok |-> FALSE, body |-> None]

\* allowed_mime_types with one more type let through
allowed_mime_types_with_gif == {"image/jpeg", "image/png", "image/webp", "image/gif"}

allowed_mime_types == {"image/jpeg", "image/png", "image/webp"}

\* the declared content types a client may send; "None" is a part without one
ContentTypes == allowed_mime_types \cup {"image/gif", "None"}

\* Image.open raises UnidentifiedImageError, a subclass of OSError
OpenFails(image) == image = "not_image"

\* exception classes that are ValueError or a subclass of it
ValueErrors == {"ValueError", "JSONDecodeError"}

HTTPException(status_code, detail) ==
    [kind |-> "raise", status |-> status_code, detail |-> detail, value |-> None]

Return(v) == [kind |-> "return", status |-> 0, detail |-> <<>>, value |-> v]

NoResult == [kind |-> "none", status |-> 0, detail |-> <<>>, value |-> None]

\* main.py 118-128: what the handler raises for exception exc raised in the
\* outer try
OuterExcept(exc) ==
    IF exc.type \in ValueErrors THEN HTTPException(400, exc.msg)
    ELSE IF exc.type = "HTTPException" THEN HTTPException(exc.status, exc.msg)
    ELSE HTTPException(500, <<"Ocorreu um erro interno inesperado ao processar a imagem: ",
                              exc.type>>)

Exc(type, status, msg) == [type |-> type, status |-> status, msg |-> msg]

\* OnJSONDecodeError without the inner except clause: the JSONDecodeError
\* itself reaches the outer try
OnJSONDecodeError_uncaught ==
    Exc("JSONDecodeError", 0, <<"Expecting value: line 1 column 1 (char 0)">>)

\* main.py 109-114
OnJSONDecodeError ==
    Exc("HTTPException", 502, <<"A IA nao retornou uma resposta JSON valida.">>)

\* main.py 95-114: the handler's result for the text the client returned
Normalizer(gemini_response_text) ==
    LET parsed == loads(json_str(gemini_response_text))
    IN IF parsed.ok THEN Return(parsed.value) ELSE OuterExcept(OnJSONDecodeError)

(* ---------------- the request handler as a state machine ---------------- *)

\* A request: where its coroutine stands (pc), its upload (content_type; image,
\* the bytes file.read() returned; closed), what it has done so far (read,
\* opened, calls), what the model did
\* (outcome), the handler's locals and result, and the response sent.
NewRequest ==
    [pc |-> "new", content_type |-> "", image |-> "", closed |-> FALSE,
     read |-> FALSE, opened |-> FALSE, calls |-> 0,
     outcome |-> Outcome("none", <<>>, "", <<>>),
     gemini_response_text |-> <<>>, json_str |-> <<>>,
     result |-> NoResult, status |-> 0, detail |-> <<>>, body |-> None]

Init == /\ req = [r \in Requests |-> NewRequest]
        /\ MODEL_GEMINI = "gemini-1.5-flash-latest"

\* predict_plant_disease is a coroutine on the server's event loop and
\* model.generate_content is a plain blocking call: while one request is
\* inside it the loop runs no other coroutine.
LoopBlocked == \E q \in Requests : req[q].pc = "in_model"

\* main.py 77-82: the content type is not allowed; HTTPException(400) is
\* raised before the try statement
GateReject(r) ==
    /\ req[r].pc = "new"
    /\ ~LoopBlocked
    /\ \E ct \in ContentTypes :
          /\ ct \notin allowed_mime_types
          /\ req' = [req EXCEPT ![r] =
                [@ EXCEPT !.pc = "done", !.content_type = ct, !.status = 400,
                          !.detail = <<"Tipo de arquivo invalido: ", ct>>]]
    /\ UNCHANGED MODEL_GEMINI

\* main.py 77-85: the content type is allowed; the handler awaits file.read()
\* and the loop may run another coroutine meanwhile
GateAccept(r) ==
    /\ req[r].pc = "new"
    /\ ~LoopBlocked
    /\ \E ct \in ContentTypes :
          /\ ct \in allowed_mime_types
          /\ req' = [req EXCEPT ![r] = [@ EXCEPT !.pc = "reading", !.content_type = ct]]
    /\ UNCHANGED MODEL_GEMINI

\* the exception main.py 86-88 raises for this upload
ImageError(image, mime_type) ==
    IF OpenFails(image)
    THEN Exc("UnidentifiedImageError", 0, <<"cannot identify image file">>)
    ELSE Exc(image_pil_to_parts(image, mime_type).exc, 0,
             <<"Nao foi possivel processar a imagem para o formato ",
               format_type(mime_type)>>)

ImageOk(image, mime_type) == ~OpenFails(image) /\ image_pil_to_parts(image, mime_type).ok

\* main.py 85-88, 118-131: the bytes are read, Image.open or image_pil_to_parts
\* raises, an except clause turns it into an HTTPException and the finally
\* clause awaits file.close()
ImageFails(r) ==
    /\ req[r].pc = "reading"
    /\ ~LoopBlocked
    /\ \E img \in Images :
          /\ ~ImageOk(img, req[r].content_type)
          /\ req' = [req EXCEPT ![r] =
                [@ EXCEPT !.pc = "closing", !.image = img, !.read = TRUE, !.opened = TRUE,
                          !.result = OuterExcept(ImageError(img, req[r].content_type))]]
    /\ UNCHANGED MODEL_GEMINI

\* main.py 85-93, functions.py 77-86: the image is packaged and
\* model.generate_content is called
CallModel(r) ==
    /\ req[r].pc = "reading"
    /\ ~LoopBlocked
    /\ \E img \in Images :
          /\ ImageOk(img, req[r].content_type)
          /\ req' = [req EXCEPT ![r] =
                [@ EXCEPT !.pc = "in_model", !.image = img, !.read = TRUE,
                          !.opened = TRUE, !.calls = @ + 1]]
    /\ UNCHANGED MODEL_GEMINI

\* functions.py 83-115, main.py 95-114, 121-131: generate_content replies or
\* raises, the client returns its text, the handler normalises and parses it,
\* and the finally clause awaits file.close()
ModelReturns(r, outcomes) ==
    /\ req[r].pc = "in_model"
    /\ \E o \in outcomes :
          LET text == get_gemini_plant_disease_response(o)
          IN req' = [req EXCEPT ![r] =
                [@ EXCEPT !.pc = "closing", !.outcome = o,
                          !.gemini_response_text = text,
                          !.json_str = json_str(text),
                          !.result = Normalizer(text)]]
    /\ UNCHANGED MODEL_GEMINI

\* Respond without response_model: the returned value is sent as it is
Respond_unvalidated(result) ==
    IF result.kind = "raise"
    THEN [status |-> result.status, detail |-> result.detail, body |-> None]
    ELSE [status |-> 200, detail |-> <<>>, body |-> result.value]

\* the response for what the handler returned or raised: a returned value is
\* validated against response_model, and a ResponseValidationError is a 500
Respond(result) ==
    IF result.kind = "raise"
    THEN [status |-> result.status, detail |-> result.detail, body |-> None]
    ELSE LET validated == DiseaseInfo(result.value)
         IN IF validated.ok
            THEN [status |-> 200, detail |-> <<>>, body |-> validated.body]
            ELSE [status |-> 500, detail |-> <<"Internal Server Error">>, body |-> None]

\* main.py 129-131: file.close() completes, the handler exits and the
\* response is sent
Close(r) ==
    /\ req[r].pc = "closing"
    /\ ~LoopBlocked
    /\ LET response == Respond(req[r].result)
       IN req' = [req EXCEPT ![r] =
             [@ EXCEPT !.pc = "done", !.closed = TRUE, !.status = response.status,
                       !.detail = response.detail, !.body = response.body]]
    /\ UNCHANGED MODEL_GEMINI

predict_plant_disease(r, outcomes) ==
    \/ GateReject(r)
    \/ GateAccept(r)
    \/ ImageFails(r)
    \/ CallModel(r)
    \/ ModelReturns(r, outcomes)
    \/ Close(r)

\* the replies used when several requests are in flight
FewOutcomes ==
    {Outcome("text", dumps(Healthy), "", <<>>),
     Outcome("text", Prose, "", <<>>),
     Outcome("blocked", <<>>, "SAFETY", <<>>)}

\* several requests on one event loop
Next == \E r \in Requests : predict_plant_disease(r, FewOutcomes)

Spec == Init /\ [][Next]_vars

\* one request, every reply of the model
NextOne == predict_plant_disease(1, Outcomes)

SpecOne == Init /\ [][NextOne]_vars

(* ---------------- properties ---------------- *)

Done(r) == req[r].pc = "done"

Contains(s, c) == \E i \in 1..Len(s) : s[i] = c

endswith(s, p) == Len(s) >= Len(p) /\ SubSeq(s, Len(s) - Len(p) + 1, Len(s)) = p

\* a value with the four fields of DiagnosisResult, each of its declared type
StrictlyValid(v) ==
    /\ IsDict(v)
    /\ Fields \subseteq DOMAIN v
    /\ v.planta_saudavel.t = "bool"
    /\ v.nome_doenca_praga.t = "str"
    /\ v.descricao.t = "str"
    /\ v.sugestoes_tratamento.t = "list"
    /\ \A i \in 1..Len(v.sugestoes_tratamento.items) :
          v.sugestoes_tratamento.items[i].t = "str"

\* v without the keys that are no field of DiagnosisResult
OnlyFields(v) == [f \in Fields |-> v[f]]

\* C1: a request whose model call reported a block ends with a 200 response;
\* the client's text parses and is valid against DiagnosisResult, with
\* planta_saudavel false, the blocked sentinel as name, the block reason in
\* descricao and a list of strings as sugestoes_tratamento.
C1_BlockedIs200 ==
    \A r \in Requests :
        Done(r) /\ req[r].outcome.kind = "blocked" =>
            /\ loads(req[r].gemini_response_text).ok
            /\ StrictlyValid(loads(req[r].gemini_response_text).value)
            /\ req[r].status = 200
            /\ req[r].body.planta_saudavel = Bool(FALSE)
            /\ req[r].body.nome_doenca_praga = Str(<<"Bloqueado pela IA">>)
            /\ Contains(req[r].body.descricao.s, req[r].outcome.block_reason)

\* C2: a request whose model call raised ends with a 200 response, never a
\* 500, whose body has planta_saudavel false, the error sentinel as name and
\* the error message without any double quote in descricao.
C2_ModelErrorIs200 ==
    \A r \in Requests :
        Done(r) /\ req[r].outcome.kind = "raise" =>
            /\ req[r].status # 500
            /\ req[r].status = 200
            /\ req[r].body.planta_saudavel = Bool(FALSE)
            /\ req[r].body.nome_doenca_praga = Str(<<"Erro na IA">>)
            /\ ~Contains(req[r].body.descricao.s, DQ)
            /\ endswith(req[r].body.descricao.s, replace(req[r].outcome.msg, DQ, SQ))

\* C3: no request terminates with its upload still open, whatever the exit
\* path (success, content-type rejection, image failure, 502, 500).
C3_ClosedOnEveryExit == \A r \in Requests : Done(r) => req[r].closed

\* C4: an upload of an allowed content type whose image cannot be decoded or
\* re-encoded ends with a 400, never a 500, and the model is not called.
C4_ImageFailureIs400 ==
    \A r \in Requests :
        /\ Done(r)
        /\ req[r].content_type \in {"image/jpeg", "image/png", "image/webp"}
        /\ \/ req[r].image = "not_image"
           \/ req[r].image = "rgba" /\ req[r].content_type = "image/jpeg"
        => req[r].status = 400 /\ req[r].calls = 0

\* C5: a request whose content type is missing or not one of image/jpeg,
\* image/png, image/webp is answered 400 with a detail naming the type, and
\* nothing else was done for it: no bytes read, no image decoded, no model call.
C5_GateRejectsFirst ==
    \A r \in Requests :
        /\ req[r].pc # "new"
        /\ req[r].content_type \notin {"image/jpeg", "image/png", "image/webp"}
        => /\ Done(r)
           /\ req[r].status = 400
           /\ Contains(req[r].detail, req[r].content_type)
           /\ ~req[r].read
           /\ ~req[r].opened
           /\ req[r].calls = 0
           /\ req[r].outcome.kind = "none"

C5_Witness ==
    \E r \in Requests : Done(r) /\ req[r].content_type = "None" /\ req[r].status = 400

\* the reply text of request r is itself a JSON object valid against
\* DiagnosisResult
ReplyIsValidObject(r) ==
    /\ Done(r)
    /\ req[r].outcome.kind = "text"
    /\ loads(req[r].outcome.text).ok
    /\ StrictlyValid(loads(req[r].outcome.text).value)

\* C6 as claimed: a reply that is already a JSON object valid against
\* DiagnosisResult is answered 200 with a body equal to exactly that object.
C6_ExactBody ==
    \A r \in Requests :
        ReplyIsValidObject(r) =>
            req[r].status = 200 /\ req[r].body = loads(req[r].outcome.text).value

\* C6 amended: a reply that is already a JSON object valid against
\* DiagnosisResult is answered 200 with a body equal to that object restricted
\* to the four fields of DiagnosisResult.
C6_BodyIsObjectFields ==
    \A r \in Requests :
        ReplyIsValidObject(r) =>
            /\ req[r].status = 200
            /\ req[r].body = OnlyFields(loads(req[r].outcome.text).value)

C6_Witness ==
    \E r \in Requests :
        /\ ReplyIsValidObject(r)
        /\ req[r].outcome.text = dumps(WithExtraKey)
        /\ req[r].status = 200

\* C7: a request whose model text, after fence stripping and trimming, is not
\* valid JSON ends with a 502 with a non-empty detail, and the model was
\* called exactly once for it.
C7_BadJsonIs502 ==
    \A r \in Requests :
        Done(r) /\ req[r].outcome.kind # "none" /\ ~loads(req[r].json_str).ok =>
            req[r].status = 502 /\ req[r].detail # <<>> /\ req[r].calls = 1

C7_Witness ==
    \E r \in Requests :
        Done(r) /\ req[r].outcome.text = Prose /\ req[r].status = 502 /\ req[r].calls = 1

\* the normalisation C8 describes: a leading fence removed if present, a
\* trailing fence removed if present, surrounding whitespace trimmed
WithoutFences(text) ==
    LET t == strip(text)
        a == IF startswith(t, FenceJson) THEN SubSeq(t, Len(FenceJson) + 1, Len(t))
             ELSE IF startswith(t, Fence) THEN SubSeq(t, Len(Fence) + 1, Len(t))
             ELSE t
        b == IF endswith(a, Fence) THEN SubSeq(a, 1, Len(a) - Len(Fence)) ELSE a
    IN strip(b)

\* C8: the string handed to the JSON parser is the reply with a leading fence
\* removed if present, a trailing fence removed if present and whitespace
\* trimmed, nothing else dropped; a fenced JSON text is parsed to the same
\* value as the bare text.
C8_FencesStripped ==
    \A r \in Requests :
        Done(r) /\ req[r].outcome.kind = "text" =>
            /\ req[r].json_str = WithoutFences(req[r].outcome.text)
            /\ \A v \in ReplyValues :
                  req[r].outcome.text \in {Wrap("json_fence", dumps(v)),
                                           Wrap("bare_fence", dumps(v))}
                  => req[r].result = Return(v)

\* request r got a reply whose text parsed as JSON
Parsed(r) == Done(r) /\ req[r].outcome.kind # "none" /\ loads(req[r].json_str).ok

\* C9 as claimed: a 200 body is valid against DiagnosisResult, and a parsed
\* value with a field missing or not of its declared type is answered with an
\* error status.
C9_StrictSchema ==
    \A r \in Requests :
        /\ Done(r) /\ req[r].status = 200 => StrictlyValid(req[r].body)
        /\ Parsed(r) /\ ~StrictlyValid(loads(req[r].json_str).value)
           => req[r].status \in {500, 502}

\* a value pydantic turns into a bool
BoolLike(v) ==
    \/ v.t = "bool"
    \/ v.t = "str" /\ v.s \in {<<"t", "r", "u", "e">>, <<"f", "a", "l", "s", "e">>}
    \/ v.t = "int" /\ v.s \in {<<"0">>, <<"1">>}

\* v has the four fields, the strings and the list of their declared type and
\* planta_saudavel a bool or a value converted to one
ValidAfterConversion(v) ==
    /\ IsDict(v)
    /\ Fields \subseteq DOMAIN v
    /\ StrictlyValid([v EXCEPT !.planta_saudavel = Bool(TRUE)])
    /\ BoolLike(v.planta_saudavel)

\* C9 amended: a 200 body is valid against DiagnosisResult; a parsed value
\* that is not an object, misses a field, has a string field or the list not
\* of its declared type (a single string for sugestoes_tratamento included), or
\* a planta_saudavel that is neither a bool nor convertible to one, is answered
\* 500; and a single string is never turned into a list.
C9_ValidatedOrRejected ==
    \A r \in Requests :
        /\ Done(r) /\ req[r].status = 200 => StrictlyValid(req[r].body)
        /\ Parsed(r) /\ ~ValidAfterConversion(loads(req[r].json_str).value)
           => req[r].status = 500 /\ req[r].body = None
        /\ Parsed(r) /\ req[r].status = 200
           => req[r].body.sugestoes_tratamento
                 = loads(req[r].json_str).value.sugestoes_tratamento

C9_Witness ==
    \E r \in Requests :
        /\ Parsed(r)
        /\ loads(req[r].json_str).value = SingleString
        /\ req[r].status = 500

\* C10: while one request waits for the model's reply every other request can
\* take its next step, and no request modifies the shared model handle.
C10_NoBlocking ==
    /\ MODEL_GEMINI = "gemini-1.5-flash-latest"
    /\ \A a, b \in Requests :
          a # b /\ req[a].pc = "in_model" =>
              /\ req[b].pc = "new" => ENABLED (GateReject(b) \/ GateAccept(b))
              /\ req[b].pc = "reading" => ENABLED (ImageFails(b) \/ CallModel(b))
              /\ req[b].pc = "closing" => ENABLED Close(b)
====
